---- MODULE Spec2Model ----
(***************************************************************************)
(* CarFit Studio configurator engine: the zustand selection store          *)
(* (frontend/lib/parts-data.ts, both store revisions), the layer order     *)
(* used by the two compositors, and the handleGenerate orchestrator of     *)
(* ConfiguratorLayout.tsx.                                                 *)
(***************************************************************************)
EXTENDS Integers, Sequences, FiniteSets, TLC

(* ------------------------------------------------------------------ *)
(* Bounds                                                               *)
(* ------------------------------------------------------------------ *)

\* how many options of each category (in declaration order) the UI offers
NWrap == 2
NRoof == 2
NBody == 2
\* how many distinct photo files the user can upload
NFiles == 1
\* how many generation attempts one run may start
MaxAttempts == 2
\* how many options of each category are offered in runs that generate
NGenWrap == 0
NGenRoof == 1
NGenBody == 1
\* how many options of each category are offered in runs of the canvas compositor
NRasterWrap == 1
NRasterRoof == 1
NRasterBody == 0
\* how many runs of renderCanvas one run may start
MaxRenders == 2
\* how many options of each category callers that pass any argument pair use
NAnyWrap == 2
NAnyRoof == 1
NAnyBody == 0

(* ------------------------------------------------------------------ *)
(* Catalog                                                              *)
(* ------------------------------------------------------------------ *)

PART_CATEGORIES ==
  << [id |-> "wrap", type |-> "exclusive"],
     [id |-> "roof", type |-> "exclusive"],
     [id |-> "body", type |-> "additive"] >>

\* idLen is the length of the id string (what String.prototype.length gives)
PART_OPTIONS ==
  << [id |-> "wrap_matte_black_01",     categoryId |-> "wrap", price |-> 2499, zIndex |-> 10, idLen |-> 19],
     [id |-> "wrap_satin_chrome_02",    categoryId |-> "wrap", price |-> 3499, zIndex |-> 10, idLen |-> 20],
     [id |-> "wrap_color_shift_03",     categoryId |-> "wrap", price |-> 3999, zIndex |-> 10, idLen |-> 19],
     [id |-> "roof_rack_silver_02",     categoryId |-> "roof", price |-> 199,  zIndex |-> 30, idLen |-> 19],
     [id |-> "roof_box_black_01",       categoryId |-> "roof", price |-> 449,  zIndex |-> 40, idLen |-> 17],
     [id |-> "roof_basket_black_03",    categoryId |-> "roof", price |-> 279,  zIndex |-> 45, idLen |-> 20],
     [id |-> "body_frontlip_black_01",  categoryId |-> "body", price |-> 189,  zIndex |-> 20, idLen |-> 22],
     [id |-> "body_sideskirt_color_02", categoryId |-> "body", price |-> 249,  zIndex |-> 21, idLen |-> 23],
     [id |-> "body_spoiler_black_03",   categoryId |-> "body", price |-> 179,  zIndex |-> 25, idLen |-> 21] >>

CategoryIds == { PART_CATEGORIES[i].id : i \in 1..Len(PART_CATEGORIES) }

\* index of the first catalog entry with this id, 0 when there is none
PartIndex(partId) ==
  IF \E i \in 1..Len(PART_OPTIONS) : PART_OPTIONS[i].id = partId
  THEN CHOOSE i \in 1..Len(PART_OPTIONS) :
         /\ PART_OPTIONS[i].id = partId
         /\ \A j \in 1..(i-1) : PART_OPTIONS[j].id # partId
  ELSE 0

\* getPartById: the PartOption, or undefined (modelled as "no index")
getPartById(partId) == PartIndex(partId)

Resolves(partId) == getPartById(partId) # 0

Part(partId) == PART_OPTIONS[PartIndex(partId)]

\* getPartsByCategory: ids of a category in declaration order
getPartsByCategory(categoryId) ==
  LET keep(p) == p.categoryId = categoryId
      opts == SelectSeq(PART_OPTIONS, keep)
  IN  [i \in 1..Len(opts) |-> opts[i].id]

getCategoryById(categoryId) ==
  IF \E i \in 1..Len(PART_CATEGORIES) : PART_CATEGORIES[i].id = categoryId
  THEN CHOOSE i \in 1..Len(PART_CATEGORIES) : PART_CATEGORIES[i].id = categoryId
  ELSE 0

isExclusiveCategory(categoryId) ==
  LET c == getCategoryById(categoryId)
  IN  c # 0 /\ PART_CATEGORIES[c].type = "exclusive"

\* the options the option cards of the UI offer, per category
Offered(categoryId) ==
  LET all == getPartsByCategory(categoryId)
      n == CASE categoryId = "wrap" -> NWrap
             [] categoryId = "roof" -> NRoof
             [] OTHER -> NBody
      m == IF n < Len(all) THEN n ELSE Len(all)
  IN  { all[i] : i \in 1..m }

(* ------------------------------------------------------------------ *)
(* JavaScript values held in a selection slot                           *)
(* ------------------------------------------------------------------ *)

JSNull == [shape |-> "null", ids |-> << >>]
JSId(partId) == [shape |-> "id", ids |-> << partId >>]
JSArr(s) == [shape |-> "array", ids |-> s]

\* v === partId
StrictEq(v, partId) == v.shape = "id" /\ v.ids = << partId >>

\* truthiness of a slot value (a catalog id is a non-empty string)
Truthy(v) == v.shape # "null"

SeqToSet(s) == { s[i] : i \in 1..Len(s) }

\* an includes() that never finds the id
Includes_NeverFinds(s, x) == FALSE

Includes(s, x) == \E i \in 1..Len(s) : s[i] = x

\* currentArray.filter(id => id !== partId)
FilterOut(s, x) ==
  LET keep(y) == y # x
  IN  SelectSeq(s, keep)

(* ------------------------------------------------------------------ *)
(* Selection mutations as functions of the selections object           *)
(* ------------------------------------------------------------------ *)

\* const initialSelections of the first store revision
initialSelections == [wrap |-> JSNull, roof |-> JSNull, body |-> JSArr(<< >>)]

\* const initialSelections of the second store revision (roof declared string[])
initialSelectionsV2 == [wrap |-> JSNull, roof |-> JSArr(<< >>), body |-> JSArr(<< >>)]

\* a toggle that would put a new id in front
ToggleInArray_Prepends(currentArray, partId) ==
  IF Includes(currentArray, partId)
  THEN FilterOut(currentArray, partId)
  ELSE << partId >> \o currentArray

ToggleInArray_NeverRemoves(currentArray, partId) ==
  IF Includes(currentArray, partId)
  THEN currentArray
  ELSE Append(currentArray, partId)

\* the array toggle of the additive branch
ToggleInArray(currentArray, partId) ==
  IF Includes(currentArray, partId)
  THEN FilterOut(currentArray, partId)
  ELSE Append(currentArray, partId)

selectPartV1_NoToggleOff(sel, categoryId, partId) ==
  IF categoryId = "wrap" THEN [sel EXCEPT !.wrap = JSId(partId)]
  ELSE IF categoryId = "roof" THEN [sel EXCEPT !.roof = JSId(partId)]
  ELSE [sel EXCEPT !.body = JSArr(ToggleInArray(sel.body.ids, partId))]

\* selectPart, first revision: wrap and roof by name, everything else is body
selectPartV1(sel, categoryId, partId) ==
  IF categoryId = "wrap"
  THEN [sel EXCEPT !.wrap = IF StrictEq(sel.wrap, partId) THEN JSNull ELSE JSId(partId)]
  ELSE IF categoryId = "roof"
  THEN [sel EXCEPT !.roof = IF StrictEq(sel.roof, partId) THEN JSNull ELSE JSId(partId)]
  ELSE [sel EXCEPT !.body = JSArr(ToggleInArray(sel.body.ids, partId))]

selectPartV2_AllAdditive(sel, categoryId, partId) ==
  [sel EXCEPT ![categoryId] = JSArr(ToggleInArray(sel[categoryId].ids, partId))]

\* selectPart, second revision: dispatches on isExclusiveCategory
selectPartV2(sel, categoryId, partId) ==
  IF isExclusiveCategory(categoryId)
  THEN [sel EXCEPT ![categoryId] =
          IF StrictEq(sel[categoryId], partId) THEN JSNull ELSE JSId(partId)]
  ELSE [sel EXCEPT ![categoryId] = JSArr(ToggleInArray(sel[categoryId].ids, partId))]

deselectPartV1(sel, categoryId, partId) ==
  IF categoryId = "wrap"
  THEN [sel EXCEPT !.wrap = IF StrictEq(sel.wrap, partId) THEN JSNull ELSE sel.wrap]
  ELSE IF categoryId = "roof"
  THEN [sel EXCEPT !.roof = IF StrictEq(sel.roof, partId) THEN JSNull ELSE sel.roof]
  ELSE [sel EXCEPT !.body = JSArr(FilterOut(sel.body.ids, partId))]

deselectPartV2(sel, categoryId, partId) ==
  IF isExclusiveCategory(categoryId)
  THEN [sel EXCEPT ![categoryId] =
          IF StrictEq(sel[categoryId], partId) THEN JSNull ELSE sel[categoryId]]
  ELSE [sel EXCEPT ![categoryId] = JSArr(FilterOut(sel[categoryId].ids, partId))]

clearCategoryV1_ResetsEverything(sel, categoryId) == initialSelections

clearCategoryV1(sel, categoryId) ==
  IF categoryId = "wrap" THEN [sel EXCEPT !.wrap = JSNull]
  ELSE IF categoryId = "roof" THEN [sel EXCEPT !.roof = JSNull]
  ELSE [sel EXCEPT !.body = JSArr(<< >>)]

clearCategoryV2(sel, categoryId) ==
  IF isExclusiveCategory(categoryId)
  THEN [sel EXCEPT ![categoryId] = JSNull]
  ELSE [sel EXCEPT ![categoryId] = JSArr(<< >>)]

(* ------------------------------------------------------------------ *)
(* Derived queries as functions of the selections object               *)
(* ------------------------------------------------------------------ *)

\* what `...v` pushes: the elements of an array, the characters of a string
\* (no character is a catalog id); spreading null throws, see SpreadThrows
Spread(v) ==
  IF v.shape = "array" THEN v.ids
  ELSE IF v.shape = "id" THEN [i \in 1..Part(v.ids[1]).idLen |-> "char"]
  ELSE << >>

SpreadThrows(v) == v.shape = "null"

\* v.length of an array or of a string; null.length throws
LengthOf(v) ==
  IF v.shape = "array" THEN Len(v.ids)
  ELSE IF v.shape = "id" THEN Part(v.ids[1]).idLen
  ELSE 0

\* the selectedIds array both getSelectedParts and getSelectedLayers collect
SelectedIds(rev, sel) ==
  IF rev = 1
  THEN (IF Truthy(sel.wrap) THEN sel.wrap.ids ELSE << >>)
         \o (IF Truthy(sel.roof) THEN sel.roof.ids ELSE << >>)
         \o sel.body.ids
  ELSE (IF Truthy(sel.wrap) THEN sel.wrap.ids ELSE << >>)
         \o Spread(sel.roof)
         \o Spread(sel.body)

\* the getters of the second revision throw a TypeError on a null roof slot
GettersThrow(rev, sel) == rev = 2 /\ SpreadThrows(sel.roof)

\* .map(id => getPartById(id)).filter(part => part !== undefined)
ResolveAll(ids) == SelectSeq(ids, Resolves)

getSelectedPartsOf(rev, sel) == ResolveAll(SelectedIds(rev, sel))

\* one pass of a stable sort: p goes behind every entry whose zIndex is <= its own
RECURSIVE InsertByZIndex(_, _)
InsertByZIndex(sorted, p) ==
  IF sorted = << >> THEN << p >>
  ELSE IF Part(p).zIndex - Part(Head(sorted)).zIndex < 0
       THEN << p >> \o sorted
       ELSE << Head(sorted) >> \o InsertByZIndex(Tail(sorted), p)

\* Array.prototype.sort((a, b) => a.zIndex - b.zIndex), which is stable
RECURSIVE SortByZIndex(_)
SortByZIndex(parts) ==
  IF parts = << >> THEN << >>
  ELSE InsertByZIndex(SortByZIndex(SubSeq(parts, 1, Len(parts) - 1)), parts[Len(parts)])

getLayersSortedByZIndex_NoSort(selectedIds) == ResolveAll(selectedIds)

getLayersSortedByZIndex(selectedIds) == SortByZIndex(ResolveAll(selectedIds))

getSelectedLayersOf(rev, sel) == getLayersSortedByZIndex(SelectedIds(rev, sel))

RECURSIVE SumPrice(_)
SumPrice(parts) ==
  IF parts = << >> THEN 0 ELSE Part(Head(parts)).price + SumPrice(Tail(parts))

getTotalPriceOf(rev, sel) == SumPrice(getSelectedPartsOf(rev, sel))

getSelectionCountOf_BodyAsOne(rev, sel) ==
  (IF Truthy(sel.wrap) THEN 1 ELSE 0) + (IF Truthy(sel.roof) THEN 1 ELSE 0)
    + (IF sel.body.ids # << >> THEN 1 ELSE 0)

getSelectionCountOf(rev, sel) ==
  IF rev = 1
  THEN (IF Truthy(sel.wrap) THEN 1 ELSE 0) + (IF Truthy(sel.roof) THEN 1 ELSE 0)
         + Len(sel.body.ids)
  ELSE (IF Truthy(sel.wrap) THEN 1 ELSE 0) + LengthOf(sel.roof) + LengthOf(sel.body)

\* String.prototype.includes on a catalog id: no catalog id contains another
isPartSelectedOf(rev, sel, partId) ==
  IF rev = 1
  THEN StrictEq(sel.wrap, partId) \/ StrictEq(sel.roof, partId)
         \/ Includes(sel.body.ids, partId)
  ELSE StrictEq(sel.wrap, partId)
         \/ (sel.roof.shape = "array" /\ Includes(sel.roof.ids, partId))
         \/ (sel.roof.shape = "id" /\ sel.roof.ids = << partId >>)
         \/ Includes(sel.body.ids, partId)

(* ------------------------------------------------------------------ *)
(* State                                                                *)
(* ------------------------------------------------------------------ *)

VARIABLES
  rev,           \* which store revision is built in: 1 or 2
  selections,    \* [wrap, roof, body], each a JS value
  carImage,      \* 0 is null, 1..NFiles a File
  carImageUrl,   \* 0 is null, f the object URL created for File f
  resultImage,   \* [kind, of]
  isGenerating,  \* boolean
  aiMessage,     \* [kind, of]
  attempts,      \* the calls of handleGenerate that passed the guard, in start order
  selectedPartsMap, \* the page's Map<PartCategoryId, PartOption>, in iteration order
  renders,       \* the calls of OverlayCanvas.renderCanvas, in start order
  canvas,        \* what has been drawn on the canvas since it was last resized
  isLoading,     \* OverlayCanvas loading flag
  composite,     \* the argument of the last onCompositeReady call
  hasError,      \* the parts whose mounted PartLayer has hasError = true
  last           \* the operation that produced this state

storeVars == << rev, selections, carImage, carImageUrl, resultImage, isGenerating,
                aiMessage, attempts >>

rasterVars == << selectedPartsMap, renders, canvas, isLoading, composite >>

vars == << rev, selections, carImage, carImageUrl, resultImage, isGenerating,
           aiMessage, attempts, selectedPartsMap, renders, canvas, isLoading,
           composite, hasError, last >>

NoImage == [kind |-> "null", of |-> 0]
NoMessage == [kind |-> "null", of |-> 0]
\* `of` names the attempt that set the value; the placeholder URL, the
\* "Preview generated." text and the failure text are the same for every attempt
PlaceholderImage(k) == [kind |-> "placeholder", of |-> k]
FailedMessage(k) == [kind |-> "failed", of |-> k]

\* last.body is the response body when the operation was the arrival of one;
\* last.before is the slot of last.cat before the operation; when the operation
\* before it was a selectPart on the same category, last.chain says whether it
\* named the same option, last.part2 is the option it named and last.before2
\* is the slot before that one
NoBody == [status |-> "", image_base64 |-> FALSE, image_url |-> FALSE, message |-> FALSE]

NoOp == [op |-> "init", cat |-> "", part |-> "", before |-> JSNull,
         hadResult |-> FALSE, k |-> 0, out |-> "", chain |-> "", part2 |-> "",
         before2 |-> JSNull, body |-> NoBody]

HasResult == resultImage # NoImage \/ aiMessage # NoMessage

StoreOp(name, categoryId, partId) ==
  [op |-> name, cat |-> categoryId, part |-> partId,
   before |-> IF categoryId \in CategoryIds THEN selections[categoryId] ELSE JSNull,
   hadResult |-> HasResult, k |-> 0, out |-> "", chain |-> "", part2 |-> "",
   before2 |-> JSNull, body |-> NoBody]

SelectOp(categoryId, partId) ==
  LET chained == last.op = "selectPart" /\ last.cat = categoryId
  IN  [StoreOp("selectPart", categoryId, partId) EXCEPT
         !.chain = IF ~chained THEN "" ELSE IF last.part = partId THEN "same" ELSE "other",
         !.part2 = IF chained THEN last.part ELSE "",
         !.before2 = IF chained THEN last.before ELSE JSNull]

AttemptOp(name, idx, outcome) ==
  [op |-> name, cat |-> "", part |-> "", before |-> JSNull,
   hadResult |-> HasResult, k |-> idx, out |-> outcome, chain |-> "", part2 |-> "",
   before2 |-> JSNull, body |-> NoBody]

Init ==
  /\ rev \in {1, 2}
  /\ selections = IF rev = 1 THEN initialSelections ELSE initialSelectionsV2
  /\ carImage = 0
  /\ carImageUrl = 0
  /\ resultImage = NoImage
  /\ isGenerating = FALSE
  /\ aiMessage = NoMessage
  /\ attempts = << >>
  /\ selectedPartsMap = << >>
  /\ renders = << >>
  /\ canvas = << >>
  /\ isLoading = TRUE
  /\ composite = << >>
  /\ hasError = {}
  /\ last = NoOp

\* the PartLayer components that are mounted: LayeredVisualizer shows the result
\* view when resultImage is set, the layer stack when a photo is set, the upload
\* zone otherwise; the stack has one PartLayer per entry of getSelectedLayers()
\* (as a set, the entries of getSelectedLayers() are the resolved selectedIds:
\* sorting moves entries, it neither adds nor drops one)
MountedLayersOf(sel, image, imageUrl, result) ==
  IF result = NoImage /\ image # 0 /\ imageUrl # 0 /\ ~GettersThrow(rev, sel)
  THEN SeqToSet(ResolveAll(SelectedIds(rev, sel)))
  ELSE {}

MountedLayers == MountedLayersOf(selections, carImage, carImageUrl, resultImage)

\* hasError is state of a PartLayer instance: it goes when the layer unmounts
StillMounted ==
  IF hasError = {} THEN {}
  ELSE hasError \cap MountedLayersOf(selections', carImage', carImageUrl', resultImage')

\* what the layer stack shows: a PartLayer with hasError returns null
VisibleLayers ==
  LET shown(p) == p \in MountedLayers /\ p \notin hasError
  IN  SelectSeq(getSelectedLayersOf(rev, selections), shown)

\* onError of a layer image: setHasError(true) in that PartLayer
PartLayerError(partId) ==
  /\ partId \in MountedLayers \ hasError
  /\ hasError' = hasError \cup {partId}
  /\ last' = [AttemptOp("onError", 0, "") EXCEPT !.part = partId]
  /\ UNCHANGED << storeVars, rasterVars >>

(* ------------------------------------------------------------------ *)
(* Store actions                                                        *)
(* ------------------------------------------------------------------ *)

selectPartOf(r, sel, categoryId, partId) ==
  IF r = 1 THEN selectPartV1(sel, categoryId, partId)
  ELSE selectPartV2(sel, categoryId, partId)

deselectPartOf(r, sel, categoryId, partId) ==
  IF r = 1 THEN deselectPartV1(sel, categoryId, partId)
  ELSE deselectPartV2(sel, categoryId, partId)

clearCategoryOf(r, sel, categoryId) ==
  IF r = 1 THEN clearCategoryV1(sel, categoryId)
  ELSE clearCategoryV2(sel, categoryId)

selectPart_KeepsResult(categoryId, partId) ==
  /\ selections' = selectPartOf(rev, selections, categoryId, partId)
  /\ last' = SelectOp(categoryId, partId)
  /\ UNCHANGED rasterVars
  /\ UNCHANGED << rev, carImage, carImageUrl, resultImage, isGenerating, aiMessage, attempts >>
  /\ hasError' = StillMounted

\* selectPart: one set() that replaces the slot and clears the result
selectPart(categoryId, partId) ==
  /\ selections' = selectPartOf(rev, selections, categoryId, partId)
  /\ resultImage' = NoImage
  /\ aiMessage' = NoMessage
  /\ last' = SelectOp(categoryId, partId)
  /\ UNCHANGED rasterVars
  /\ UNCHANGED << rev, carImage, carImageUrl, isGenerating, attempts >>
  /\ hasError' = StillMounted

\* deselectPart: returns { selections } only
deselectPart(categoryId, partId) ==
  /\ selections' = deselectPartOf(rev, selections, categoryId, partId)
  /\ last' = StoreOp("deselectPart", categoryId, partId)
  /\ UNCHANGED rasterVars
  /\ UNCHANGED << rev, carImage, carImageUrl, resultImage, isGenerating, aiMessage, attempts >>
  /\ hasError' = StillMounted

\* clearCategory: returns { selections } only
clearCategory(categoryId) ==
  /\ selections' = clearCategoryOf(rev, selections, categoryId)
  /\ last' = StoreOp("clearCategory", categoryId, "")
  /\ UNCHANGED rasterVars
  /\ UNCHANGED << rev, carImage, carImageUrl, resultImage, isGenerating, aiMessage, attempts >>
  /\ hasError' = StillMounted

setCarImage(file) ==
  /\ carImage' = file
  /\ carImageUrl' = IF file # 0 THEN file ELSE 0
  /\ resultImage' = NoImage
  /\ aiMessage' = NoMessage
  /\ last' = [StoreOp("setCarImage", "", "") EXCEPT !.k = file]
  /\ UNCHANGED rasterVars
  /\ UNCHANGED << rev, selections, isGenerating, attempts >>
  /\ hasError' = StillMounted

clearAll_KeepsPhoto ==
  /\ selections' = IF rev = 1 THEN initialSelections ELSE initialSelectionsV2
  /\ resultImage' = NoImage
  /\ isGenerating' = FALSE
  /\ aiMessage' = NoMessage
  /\ last' = StoreOp("clearAll", "", "")
  /\ UNCHANGED rasterVars
  /\ UNCHANGED << rev, carImage, carImageUrl, attempts >>
  /\ hasError' = StillMounted

\* clearAll: one set() back to the initial values
clearAll ==
  /\ selections' = IF rev = 1 THEN initialSelections ELSE initialSelectionsV2
  /\ carImage' = 0
  /\ carImageUrl' = 0
  /\ resultImage' = NoImage
  /\ isGenerating' = FALSE
  /\ aiMessage' = NoMessage
  /\ last' = StoreOp("clearAll", "", "")
  /\ UNCHANGED rasterVars
  /\ UNCHANGED << rev, attempts >>
  /\ hasError' = StillMounted

(* ------------------------------------------------------------------ *)
(* handleGenerate                                                       *)
(* ------------------------------------------------------------------ *)

\* the values of the status field of a response body; "other" stands for a
\* missing status and for every value that is none of the four
Statuses == {"success", "demo", "rate_limited", "text_response", "other"}

\* the response bodies response.json() can yield: the status, and which of the
\* other fields are truthy
ResponseBodies ==
  [status : Statuses, image_base64 : BOOLEAN, image_url : BOOLEAN, message : BOOLEAN]

\* values the component captured at its last render
selectionCount == getSelectionCountOf(rev, selections)
selectedParts == getSelectedPartsOf(rev, selections)

\* a string is the sequence of its pieces: the aiPrompt text of a part, or a
\* separator; the empty string is the empty sequence
AiPrompt(partId) == [prompt |-> partId, sep |-> ""]
Separator(text) == [prompt |-> "", sep |-> text]

\* Array.prototype.join(', ')
RECURSIVE JoinComma(_)
JoinComma(descriptions) ==
  IF descriptions = << >> THEN << >>
  ELSE IF Len(descriptions) = 1 THEN << descriptions[1] >>
  ELSE << descriptions[1], Separator(", ") >> \o JoinComma(Tail(descriptions))

\* a join of every description with ', ', with no ', and ' before the last
buildAiPromptFromParts_JoinsAll(parts) ==
  [text |-> JoinComma([i \in 1..Len(parts) |-> AiPrompt(parts[i])]), parts |-> parts]

\* buildAiPromptFromParts: text is the string returned, parts is the argument
\* array as the call leaves it (pop() acts on the mapped copy, descriptions)
buildAiPromptFromParts(parts) ==
  LET descriptions == [i \in 1..Len(parts) |-> AiPrompt(parts[i])]
      n == Len(descriptions)
  IN  [text |-> IF Len(parts) = 0 THEN << >>
                ELSE IF n = 1 THEN << descriptions[1] >>
                ELSE JoinComma(SubSeq(descriptions, 1, n - 1))
                       \o << Separator(", and "), descriptions[n] >>,
       parts |-> parts]

\* partsData built from the sorted layers instead of selectedParts
RequestOf_AllPartsFromLayers(k) ==
  LET parts == getSelectedPartsOf(rev, attempts[k].sel)
      layers == getSelectedLayersOf(rev, attempts[k].sel)
      primaryPart == parts[1]
  IN  [car_image |-> attempts[k].car,
       part_image |-> primaryPart,
       part_name |-> parts,
       part_category |-> Part(primaryPart).categoryId,
       part_description |-> buildAiPromptFromParts(parts).text,
       all_parts |-> [i \in 1..Len(layers) |->
                        [id |-> layers[i], name |-> layers[i],
                         category |-> Part(layers[i]).categoryId,
                         description |-> layers[i]]]]

\* the body of the POST to /api/generate, built from the carImage and the
\* selectedParts the call captured; part_image is the part whose imagePath is
\* fetched, part_name the names joined in order, and the name and description
\* of an all_parts entry are those of the catalog part with that id
RequestOf(k) ==
  LET parts == getSelectedPartsOf(rev, attempts[k].sel)
      primaryPart == parts[1]
  IN  [car_image |-> attempts[k].car,
       part_image |-> primaryPart,
       part_name |-> parts,
       part_category |-> Part(primaryPart).categoryId,
       part_description |-> buildAiPromptFromParts(parts).text,
       all_parts |-> [i \in 1..Len(parts) |->
                        [id |-> parts[i], name |-> parts[i],
                         category |-> Part(parts[i]).categoryId,
                         description |-> parts[i]]]]

GuardPasses_PhotoOnly == carImage # 0

\* if (!carImage || selectionCount === 0) return;
GuardPasses == carImage # 0 /\ selectionCount # 0

\* the early return: nothing is set, nothing is sent
handleGenerateBlocked ==
  /\ ~GettersThrow(rev, selections)
  /\ ~GuardPasses
  /\ last' = AttemptOp("handleGenerate", 0, "blocked")
  /\ UNCHANGED rasterVars
  /\ UNCHANGED << rev, selections, carImage, carImageUrl, resultImage, isGenerating,
                  aiMessage, attempts >>
  /\ hasError' = StillMounted

\* guard passed: the three setters run, then the call suspends on the FileReader
handleGenerate ==
  /\ ~GettersThrow(rev, selections)
  /\ GuardPasses
  /\ Len(attempts) < MaxAttempts
  /\ isGenerating' = TRUE
  /\ resultImage' = NoImage
  /\ aiMessage' = NoMessage
  /\ attempts' = Append(attempts, [pc |-> "preparing", sel |-> selections,
                                   car |-> carImage])
  /\ last' = AttemptOp("handleGenerate", Len(attempts) + 1, "started")
  /\ UNCHANGED rasterVars
  /\ UNCHANGED << rev, selections, carImage, carImageUrl >>
  /\ hasError' = StillMounted

\* a catch block that would start the attempt over instead of giving up
CatchAndFinally_Retries(k, stage) ==
  /\ aiMessage' = FailedMessage(k)
  /\ isGenerating' = TRUE
  /\ attempts' = [attempts EXCEPT ![k].pc = "preparing"]
  /\ last' = AttemptOp(stage, k, "Failure")
  /\ UNCHANGED rasterVars
  /\ UNCHANGED << rev, selections, carImage, carImageUrl, resultImage >>
  /\ hasError' = StillMounted

\* catch { setAiMessage("Failed ...") } finally { setIsGenerating(false) }
CatchAndFinally(k, stage) ==
  /\ aiMessage' = FailedMessage(k)
  /\ isGenerating' = FALSE
  /\ attempts' = [attempts EXCEPT ![k].pc = "done"]
  /\ last' = AttemptOp(stage, k, "Failure")
  /\ UNCHANGED rasterVars
  /\ UNCHANGED << rev, selections, carImage, carImageUrl, resultImage >>
  /\ hasError' = StillMounted

\* the awaits before the request: FileReader on the photo, then
\* selectedParts[0].imagePath is fetched and read; then fetch(/api/generate) is called
PrepareResolves(k) ==
  /\ k \in 1..Len(attempts)
  /\ attempts[k].pc = "preparing"
  /\ IF getSelectedPartsOf(rev, attempts[k].sel) = << >>
     THEN \* primaryPart is undefined: primaryPart.imagePath throws
          CatchAndFinally(k, "prepare")
     ELSE /\ attempts' = [attempts EXCEPT ![k].pc = "awaitResp"]
          /\ last' = AttemptOp("prepare", k, "sent")
          /\ UNCHANGED rasterVars
          /\ UNCHANGED << rev, selections, carImage, carImageUrl, resultImage,
                          isGenerating, aiMessage >>
          /\ hasError' = StillMounted

\* reader.onerror, or the fetch of the part image rejects
PrepareRejects(k) ==
  /\ k \in 1..Len(attempts)
  /\ attempts[k].pc = "preparing"
  /\ CatchAndFinally(k, "prepare")

\* the branch of the if / else-if chain the body takes
Classify(data) ==
  IF data.image_base64 THEN "Success"
  ELSE IF data.image_url THEN "Demo"
  ELSE IF data.message THEN "TextOnly"
  ELSE "None"

\* a chain whose message branch would set no image
ResultImageFor_NoPlaceholder(k, data) ==
  IF data.image_base64 THEN [kind |-> "b64", of |-> k]
  ELSE IF data.image_url THEN [kind |-> "url", of |-> k]
  ELSE resultImage

ResultImageFor(k, data) ==
  IF data.image_base64 THEN [kind |-> "b64", of |-> k]
  ELSE IF data.image_url THEN [kind |-> "url", of |-> k]
  ELSE IF data.message THEN PlaceholderImage(k)
  ELSE resultImage

AiMessageFor(k, data) ==
  IF data.image_base64
  THEN (IF data.message THEN [kind |-> "data", of |-> k] ELSE [kind |-> "applied", of |-> k])
  ELSE IF data.image_url
  THEN (IF data.message THEN [kind |-> "data", of |-> k] ELSE [kind |-> "preview", of |-> k])
  ELSE IF data.message THEN [kind |-> "data", of |-> k]
  ELSE aiMessage

\* a handler whose try block would end without a finally
ResponseArrives_NoFinally(k, data) ==
  /\ k \in 1..Len(attempts)
  /\ attempts[k].pc = "awaitResp"
  /\ resultImage' = ResultImageFor(k, data)
  /\ aiMessage' = AiMessageFor(k, data)
  /\ attempts' = [attempts EXCEPT ![k].pc = "done"]
  /\ last' = [AttemptOp("response", k, Classify(data)) EXCEPT !.body = data]
  /\ UNCHANGED rasterVars
  /\ UNCHANGED << rev, selections, carImage, carImageUrl, isGenerating >>
  /\ hasError' = StillMounted

\* const data = await response.json(); the chain; finally
ResponseArrives(k, data) ==
  /\ k \in 1..Len(attempts)
  /\ attempts[k].pc = "awaitResp"
  /\ resultImage' = ResultImageFor(k, data)
  /\ aiMessage' = AiMessageFor(k, data)
  /\ isGenerating' = FALSE
  /\ attempts' = [attempts EXCEPT ![k].pc = "done"]
  /\ last' = [AttemptOp("response", k, Classify(data)) EXCEPT !.body = data]
  /\ UNCHANGED rasterVars
  /\ UNCHANGED << rev, selections, carImage, carImageUrl >>
  /\ hasError' = StillMounted

\* fetch rejects or response.json() throws
RequestFails(k) ==
  /\ k \in 1..Len(attempts)
  /\ attempts[k].pc = "awaitResp"
  /\ CatchAndFinally(k, "response")

(* ------------------------------------------------------------------ *)
(* The page's part Map and OverlayCanvas.renderCanvas                   *)
(* ------------------------------------------------------------------ *)

\* position of the entry whose key is categoryId, 0 when the Map has no such key
MapKeyIndex(m, categoryId) ==
  IF \E i \in 1..Len(m) : Part(m[i]).categoryId = categoryId
  THEN CHOOSE i \in 1..Len(m) : Part(m[i]).categoryId = categoryId
  ELSE 0

\* Map.prototype.set: an existing key keeps its place, a new key goes last
MapSet(m, partId) ==
  LET i == MapKeyIndex(m, Part(partId).categoryId)
  IN  IF i # 0 THEN [m EXCEPT ![i] = partId] ELSE Append(m, partId)

\* Map.prototype.delete
MapDelete(m, categoryId) ==
  LET keep(x) == Part(x).categoryId # categoryId
  IN  SelectSeq(m, keep)

\* the updater of handlePartSelect
handlePartSelectMap(prev, partId) ==
  LET i == MapKeyIndex(prev, Part(partId).categoryId)
  IN  IF i # 0 /\ prev[i] = partId
      THEN MapDelete(prev, Part(partId).categoryId)
      ELSE MapSet(prev, partId)

\* a call of renderCanvas: setIsLoading(true), then it waits for the car image
StartRender(parts) ==
  /\ Len(renders) < MaxRenders
  /\ renders' = Append(renders, [pc |-> "loadCar", parts |-> parts, i |-> 1])
  /\ isLoading' = TRUE

\* handlePartSelect; the new Map changes renderCanvas, whose effect calls it
handlePartSelect(partId) ==
  /\ selectedPartsMap' = handlePartSelectMap(selectedPartsMap, partId)
  /\ StartRender(selectedPartsMap')
  /\ last' = [AttemptOp("handlePartSelect", Len(renders) + 1, "") EXCEPT !.part = partId]
  /\ UNCHANGED << canvas, composite >>
  /\ UNCHANGED << storeVars, hasError >>

\* the mount effect or a window resize calls renderCanvas on the same inputs
handleResize ==
  /\ StartRender(selectedPartsMap)
  /\ last' = AttemptOp("handleResize", Len(renders) + 1, "")
  /\ UNCHANGED << selectedPartsMap, canvas, composite >>
  /\ UNCHANGED << storeVars, hasError >>

\* after the overlay loop: onCompositeReady(canvas.toDataURL()), finally setIsLoading(false)
FinishRender(r, drawn, stage) ==
  /\ composite' = drawn
  /\ isLoading' = FALSE
  /\ renders' = [renders EXCEPT ![r].pc = "done"]
  /\ last' = AttemptOp(stage, r, "composite")

\* the car image loaded: the canvas is resized and cleared, the photo is drawn,
\* and the loop over the Map starts
RenderCarLoaded(r) ==
  /\ r \in 1..Len(renders)
  /\ renders[r].pc = "loadCar"
  /\ canvas' = << "car" >>
  /\ IF renders[r].parts = << >>
     THEN FinishRender(r, canvas', "renderCar")
     ELSE /\ renders' = [renders EXCEPT ![r].pc = "overlays"]
          /\ last' = AttemptOp("renderCar", r, "")
          /\ UNCHANGED << isLoading, composite >>
  /\ UNCHANGED selectedPartsMap
  /\ UNCHANGED << storeVars, hasError >>

\* the car image failed to load: outer catch, finally setIsLoading(false)
RenderCarFails(r) ==
  /\ r \in 1..Len(renders)
  /\ renders[r].pc = "loadCar"
  /\ isLoading' = FALSE
  /\ renders' = [renders EXCEPT ![r].pc = "done"]
  /\ last' = AttemptOp("renderCar", r, "failed")
  /\ UNCHANGED << selectedPartsMap, canvas, composite >>
  /\ UNCHANGED << storeVars, hasError >>

\* the overlay step that a loop without the inner try / catch would take
RenderOverlaySettles_AbortsOnError(r, loaded) ==
  /\ r \in 1..Len(renders)
  /\ renders[r].pc = "overlays"
  /\ IF loaded
     THEN /\ canvas' = Append(canvas, renders[r].parts[renders[r].i])
          /\ IF renders[r].i = Len(renders[r].parts)
             THEN FinishRender(r, canvas', "drawOverlay")
             ELSE /\ renders' = [renders EXCEPT ![r].i = @ + 1]
                  /\ last' = AttemptOp("drawOverlay", r, "")
                  /\ UNCHANGED << isLoading, composite >>
     ELSE /\ isLoading' = FALSE
          /\ renders' = [renders EXCEPT ![r].pc = "done"]
          /\ last' = AttemptOp("skipOverlay", r, "failed")
          /\ UNCHANGED << canvas, composite >>
  /\ UNCHANGED selectedPartsMap
  /\ UNCHANGED << storeVars, hasError >>

\* the loop body settled for entry i of the Map: drawn when loaded is TRUE,
\* logged and skipped otherwise; after the last entry the composite is reported
RenderOverlaySettles(r, loaded) ==
  /\ r \in 1..Len(renders)
  /\ renders[r].pc = "overlays"
  /\ canvas' = IF loaded THEN Append(canvas, renders[r].parts[renders[r].i]) ELSE canvas
  /\ IF renders[r].i = Len(renders[r].parts)
     THEN FinishRender(r, canvas', IF loaded THEN "drawOverlay" ELSE "skipOverlay")
     ELSE /\ renders' = [renders EXCEPT ![r].i = @ + 1]
          /\ last' = AttemptOp(IF loaded THEN "drawOverlay" ELSE "skipOverlay", r, "")
          /\ UNCHANGED << isLoading, composite >>
  /\ UNCHANGED selectedPartsMap
  /\ UNCHANGED << storeVars, hasError >>

(* ------------------------------------------------------------------ *)
(* Specification                                                        *)
(* ------------------------------------------------------------------ *)

\* the first n options of a category, in declaration order
FirstOptions(categoryId, n) ==
  LET all == getPartsByCategory(categoryId)
      m == IF n < Len(all) THEN n ELSE Len(all)
  IN  { all[i] : i \in 1..m }

\* the store API, called with an option of the category it belongs to
StoreNext ==
  \/ \E c \in CategoryIds : \E p \in Offered(c) : selectPart(c, p)
  \/ \E c \in CategoryIds : \E p \in Offered(c) : deselectPart(c, p)
  \/ \E c \in CategoryIds : clearCategory(c)
  \/ \E f \in 0..NFiles : setCarImage(f)
  \/ clearAll

Next == StoreNext

Spec == Init /\ [][Next]_vars

\* the configurator with its generate button, on a part of the catalog
GenOffered(categoryId) ==
  FirstOptions(categoryId, CASE categoryId = "wrap" -> NGenWrap
                               [] categoryId = "roof" -> NGenRoof
                               [] OTHER -> NGenBody)

InitGen == Init /\ rev = 1

\* handleGenerate never reads data.status: the bodies with no recognised status
\* stand for all bodies in the runs that are not about the status
BodiesWithoutStatus == { d \in ResponseBodies : d.status = "other" }

NextGen ==
  \/ \E c \in CategoryIds : \E p \in GenOffered(c) : selectPart(c, p)
  \/ \E c \in CategoryIds : \E p \in GenOffered(c) : deselectPart(c, p)
  \/ \E c \in CategoryIds : clearCategory(c)
  \/ \E f \in 0..NFiles : setCarImage(f)
  \/ clearAll
  \/ handleGenerateBlocked
  \/ handleGenerate
  \/ \E k \in 1..MaxAttempts : PrepareResolves(k)
  \/ \E k \in 1..MaxAttempts : PrepareRejects(k)
  \/ \E k \in 1..MaxAttempts : \E d \in BodiesWithoutStatus : ResponseArrives(k, d)
  \/ \E k \in 1..MaxAttempts : RequestFails(k)

SpecGen == InitGen /\ [][NextGen]_vars

\* one photo, the option cards and the generate button, with every response body
NextResp ==
  \/ \E c \in CategoryIds : \E p \in GenOffered(c) : selectPart(c, p)
  \/ \E f \in 1..NFiles : setCarImage(f)
  \/ handleGenerate
  \/ \E k \in 1..MaxAttempts : PrepareResolves(k)
  \/ \E k \in 1..MaxAttempts : PrepareRejects(k)
  \/ \E k \in 1..MaxAttempts : \E d \in ResponseBodies : ResponseArrives(k, d)
  \/ \E k \in 1..MaxAttempts : RequestFails(k)

SpecResp == InitGen /\ [][NextResp]_vars

\* each awaited operation eventually settles: the reads before the request
\* resolve or reject, and the request gets a response or fails
AwaitsSettle ==
  \A k \in 1..MaxAttempts :
     /\ WF_vars(PrepareResolves(k) \/ PrepareRejects(k))
     /\ WF_vars((\E d \in ResponseBodies : ResponseArrives(k, d)) \/ RequestFails(k))

SpecRespFair == InitGen /\ [][NextResp]_vars /\ AwaitsSettle

\* the store API called with any category and any part id, matching or not
AnyParts ==
  FirstOptions("wrap", NAnyWrap) \cup FirstOptions("roof", NAnyRoof)
    \cup FirstOptions("body", NAnyBody)

NextAny ==
  \/ \E c \in CategoryIds : \E p \in AnyParts : selectPart(c, p)
  \/ \E c \in CategoryIds : \E p \in AnyParts : deselectPart(c, p)
  \/ \E c \in CategoryIds : clearCategory(c)
  \/ \E f \in 0..NFiles : setCarImage(f)
  \/ clearAll

SpecAny == Init /\ [][NextAny]_vars

\* the two compositors on a part of the catalog: the page with the canvas and
\* its part Map, and the configurator with the layer stack over the store
RasterOffered(categoryId) ==
  FirstOptions(categoryId, CASE categoryId = "wrap" -> NRasterWrap
                               [] categoryId = "roof" -> NRasterRoof
                               [] OTHER -> NRasterBody)

\* the page that is not open stays as it was constructed
CanvasPageClosed == renders = << >>
ConfiguratorClosed == selections = initialSelections /\ carImage = 0

NextRaster ==
  \/ ConfiguratorClosed /\ \E c \in CategoryIds : \E p \in RasterOffered(c) : handlePartSelect(p)
  \/ ConfiguratorClosed /\ handleResize
  \/ \E r \in 1..MaxRenders : RenderCarLoaded(r)
  \/ \E r \in 1..MaxRenders : RenderCarFails(r)
  \/ \E r \in 1..MaxRenders : \E loaded \in BOOLEAN : RenderOverlaySettles(r, loaded)
  \/ CanvasPageClosed /\ \E f \in 1..NFiles : setCarImage(f)
  \/ CanvasPageClosed /\ \E c \in CategoryIds : \E p \in RasterOffered(c) : selectPart(c, p)
  \/ \E c \in CategoryIds : \E p \in RasterOffered(c) : PartLayerError(p)

SpecRaster == InitGen /\ [][NextRaster]_vars

(* ------------------------------------------------------------------ *)
(* Selection rules                                                      *)
(* ------------------------------------------------------------------ *)

ExclusiveSlots == {"wrap", "roof"}

\* the part ids a slot holds
SlotIds(v) == SeqToSet(v.ids)

C2_SelectThenSelect ==
  (last.op = "selectPart" /\ last.cat \in ExclusiveSlots) =>
     /\ last.chain = "other" => selections[last.cat] = JSId(last.part)
     /\ (last.chain = "same" /\ last.before2.ids = << >>) => selections[last.cat].ids = << >>

\* both cases of C2 occur: a replaced by b, and a selected twice from empty
C2_WitnessSwap ==
  /\ last.op = "selectPart" /\ last.cat \in ExclusiveSlots /\ last.chain = "other"
  /\ last.before.shape = "id" /\ last.before2.shape = "id"

C2_WitnessTwice ==
  /\ last.op = "selectPart" /\ last.cat \in ExclusiveSlots /\ last.chain = "same"
  /\ last.before2.ids = << >> /\ last.before = JSId(last.part)

\* C3: on the additive category body, toggling a then b from a selection with
\* neither leaves that selection plus exactly {a,b} (a set, so the same for
\* either order), and toggling a twice gives back, as a set of ids, the
\* selection there was before the first toggle, whatever it was.
C3_AdditiveToggle ==
  (last.op = "selectPart" /\ last.cat = "body") =>
     /\ (/\ last.chain = "other"
         /\ last.part2 \notin SlotIds(last.before2)
         /\ last.part \notin SlotIds(last.before2))
        => /\ SlotIds(selections.body) = SlotIds(last.before2) \cup {last.part2, last.part}
           /\ Len(selections.body.ids) = Len(last.before2.ids) + 2
     /\ last.chain = "same" => SlotIds(selections.body) = SlotIds(last.before2)

\* a and b were added one after the other to a selection that had neither
C3_WitnessBoth ==
  /\ last.op = "selectPart" /\ last.cat = "body" /\ last.chain = "other"
  /\ Len(last.before.ids) = Len(last.before2.ids) + 1
  /\ Len(selections.body.ids) = Len(last.before.ids) + 1

\* a was toggled twice on a selection that held it together with another option
C3_WitnessTwice ==
  /\ last.op = "selectPart" /\ last.cat = "body" /\ last.chain = "same"
  /\ Len(last.before2.ids) = 2 /\ last.part \in SlotIds(last.before2)
  /\ Len(last.before.ids) = 1

(* ------------------------------------------------------------------ *)
(* Result invalidation and the generation attempts                      *)
(* ------------------------------------------------------------------ *)

\* C4: in the state right after any selectPart, resultImage and aiMessage are
\* both null: the selection changes and the result is cleared in one step.
C4_SelectClearsResult ==
  last.op = "selectPart" => (resultImage = NoImage /\ aiMessage = NoMessage)

\* selectPart ran on a store that was showing a result image
C4_Witness ==
  /\ last.op = "selectPart" /\ last.hadResult
  /\ attempts # << >> /\ resultImage = NoImage /\ aiMessage = NoMessage
  /\ selections # attempts[Len(attempts)].sel

\* C5: whenever resultImage is non-null, the current selection is the one the
\* attempt that produced the image was started with.
C5_ResultMatchesSelection ==
  resultImage # NoImage => selections = attempts[resultImage.of].sel

\* C6: a response of an attempt that is not the most recently started one never
\* changes the result slot, so what is exposed is always from the last attempt.
C6_LastAttemptWins ==
  /\ resultImage # NoImage => resultImage.of = Len(attempts)
  /\ aiMessage.kind \in {"data", "applied", "preview"} => aiMessage.of = Len(attempts)

Completed(op) == op.op \in {"prepare", "response"} /\ op.k # 0 /\ attempts[op.k].pc = "done"

\* C7: an attempt that passed the guard and completed ended in exactly one of
\* Success, Demo, RateLimited, TextOnly, Failure, whatever the body or the error,
\* and the store then shows a result or a message.
C7_OneTerminalOutcome ==
  Completed(last) =>
     /\ last.out \in {"Success", "Demo", "RateLimited", "TextOnly", "Failure"}
     /\ HasResult

\* C8: a call of handleGenerate with no photo or with selectionCount() = 0
\* changes nothing in the store and starts no attempt, so no request is sent.
C8_BlockedIsNoOp ==
  [][ (last'.op = "handleGenerate"
         /\ (carImage = 0 \/ getSelectionCountOf(rev, selections) = 0))
      => UNCHANGED << selections, carImage, carImageUrl, resultImage, isGenerating,
                      aiMessage, attempts >> ]_vars

\* handleGenerate was called with parts selected but no photo, and returned
C8_Witness ==
  /\ last.op = "handleGenerate" /\ last.out = "blocked"
  /\ carImage = 0 /\ getSelectionCountOf(rev, selections) > 0
  /\ ~isGenerating

(* ------------------------------------------------------------------ *)
(* Layer order                                                          *)
(* ------------------------------------------------------------------ *)

NonDecreasingZ(parts) ==
  \A i \in 1..Len(parts) : \A j \in 1..Len(parts) :
     i < j => Part(parts[i]).zIndex <= Part(parts[j]).zIndex

LiveStackPaintOrder == SortByZIndex(getSelectedLayersOf(rev, selections))

\* OverlayCanvas: the overlays drawn on the canvas, oldest first (after the photo)
RasterPaintOrder == IF canvas = << >> THEN << >> ELSE Tail(canvas)

AllSelectedIds(sel) == UNION { SlotIds(sel[c]) : c \in CategoryIds }

\* how many part ids the slots of a selections object hold
NumberSelected(sel) ==
  Len(sel.wrap.ids) + Len(sel.roof.ids) + Len(sel.body.ids)

RECURSIVE PriceOfSet(_)
PriceOfSet(S) ==
  IF S = {} THEN 0
  ELSE LET p == CHOOSE x \in S : TRUE
       IN  Part(p).price + PriceOfSet(S \ {p})

\* C11: whenever getTotalPrice() returns, it is the sum of price over exactly
\* the selected part ids, and after deselectPart of a selected id it is lower
\* than before by exactly that part's price.
C11_TotalPriceIsSum ==
  /\ ~GettersThrow(rev, selections) =>
        getTotalPriceOf(rev, selections) = PriceOfSet(AllSelectedIds(selections))
  /\ (last.op = "deselectPart" /\ last.part \in SlotIds(last.before)) =>
        LET prior == [selections EXCEPT ![last.cat] = last.before]
        IN  (~GettersThrow(rev, selections) /\ ~GettersThrow(rev, prior))
              => getTotalPriceOf(rev, selections)
                   = getTotalPriceOf(rev, prior) - Part(last.part).price

\* C12: every id held by a category's slot is the id of a catalog part of
\* that category, whatever arguments selectPart was called with.
C12_IdsBelongToCategory ==
  \A c \in CategoryIds : \A p \in SlotIds(selections[c]) :
     Resolves(p) /\ Part(p).categoryId = c

\* C13: selectPart(categoryId, partId) with a partId that is not a catalog
\* part of categoryId leaves the selection as it was.
C13_InvalidSelectionIsNoOp ==
  (/\ last.op = "selectPart"
   /\ ~(Resolves(last.part) /\ Part(last.part).categoryId = last.cat))
  => selections[last.cat] = last.before

\* C14: after selectPart, deselectPart or clearCategory the result slot is
\* empty: resultImage and aiMessage are both null.
C14_EveryMutationClearsResult ==
  last.op \in {"selectPart", "deselectPart", "clearCategory"}
    => (resultImage = NoImage /\ aiMessage = NoMessage)

\* C15: when the response of an attempt arrives after clearAll() (here: as the
\* next event after it, so the attempt was started before), it changes neither
\* resultImage nor aiMessage: both stay null as clearAll left them.
C15_ResponseAfterClearAllIsStale ==
  [][ (last.op = "clearAll" /\ last'.op = "response")
      => (resultImage' = NoImage /\ aiMessage' = NoMessage) ]_vars

\* C16: the state right after clearAll() is the initial store state: every
\* category empty, no photo, no object URL, no result, no message, not generating.
C16_ClearAllIsInitial ==
  last.op = "clearAll" =>
     /\ selections = (IF rev = 1 THEN initialSelections ELSE initialSelectionsV2)
     /\ carImage = 0
     /\ carImageUrl = 0
     /\ resultImage = NoImage
     /\ aiMessage = NoMessage
     /\ ~isGenerating

\* clearAll ran while an attempt was in flight and an earlier result was showing
C16_Witness ==
  /\ last.op = "clearAll" /\ last.hadResult
  /\ \E k \in 1..Len(attempts) : attempts[k].pc # "done"

C18_CountIsNumberSelected ==
  ~GettersThrow(rev, selections) =>
     /\ getSelectionCountOf(rev, selections) = NumberSelected(selections)
     /\ getSelectionCountOf(rev, selections) = Len(getSelectedPartsOf(rev, selections))

\* C19: whenever the getters return, isPartSelected(p) is true exactly when p
\* is held by some category's slot, which is exactly when p is in getSelectedParts().
C19_IsPartSelectedIffSelected ==
  ~GettersThrow(rev, selections) =>
     \A i \in 1..Len(PART_OPTIONS) :
        LET p == PART_OPTIONS[i].id
        IN  /\ isPartSelectedOf(rev, selections, p) <=> p \in AllSelectedIds(selections)
            /\ isPartSelectedOf(rev, selections, p)
                 <=> Includes(getSelectedPartsOf(rev, selections), p)

\* C20: after selecting W1 (2499), then B1 (189), then B2 (249) with no roof
\* part the count is 3 and the total 2937; after toggling W1 again the count is
\* 2 and the total 438.
C20_EndToEnd ==
  /\ (/\ last.op = "selectPart" /\ last.cat = "body"
      /\ last.part = "body_sideskirt_color_02" /\ last.chain = "other"
      /\ last.part2 = "body_frontlip_black_01" /\ last.before2 = JSArr(<< >>)
      /\ selections.wrap = JSId("wrap_matte_black_01")
      /\ selections.roof.ids = << >>
      /\ ~GettersThrow(rev, selections))
     => /\ getSelectionCountOf(rev, selections) = 3
        /\ getTotalPriceOf(rev, selections) = 2937
  /\ (/\ last.op = "selectPart" /\ last.cat = "wrap"
      /\ last.part = "wrap_matte_black_01" /\ last.before = JSId("wrap_matte_black_01")
      /\ selections.body = JSArr(<< "body_frontlip_black_01", "body_sideskirt_color_02" >>)
      /\ selections.roof.ids = << >>
      /\ ~GettersThrow(rev, selections))
     => /\ getSelectionCountOf(rev, selections) = 2
        /\ getTotalPriceOf(rev, selections) = 438

\* B2 was just toggled on after B1, with W1 selected and no roof part
C20_WitnessThree ==
  /\ last.op = "selectPart" /\ last.part = "body_sideskirt_color_02"
  /\ last.chain = "other" /\ last.part2 = "body_frontlip_black_01"
  /\ selections = [wrap |-> JSId("wrap_matte_black_01"),
                   roof |-> IF rev = 1 THEN JSNull ELSE JSArr(<< >>),
                   body |-> JSArr(<< "body_frontlip_black_01", "body_sideskirt_color_02" >>)]

\* W1 was just toggled off, B1 and B2 stay selected
C20_WitnessToggledOff ==
  /\ last.op = "selectPart" /\ last.part = "wrap_matte_black_01"
  /\ last.before = JSId("wrap_matte_black_01")
  /\ selections = [wrap |-> JSNull,
                   roof |-> IF rev = 1 THEN JSNull ELSE JSArr(<< >>),
                   body |-> JSArr(<< "body_frontlip_black_01", "body_sideskirt_color_02" >>)]

(* ------------------------------------------------------------------ *)
(* Response classification                                              *)
(* ------------------------------------------------------------------ *)

\* C21: a response {status: "rate_limited", message: m} ends the attempt as
\* RateLimited: m is the message, no result image is set, and isGenerating is
\* false again so that the next attempt can start at once.
C21_RateLimited ==
  (/\ last.op = "response"
   /\ last.body = [status |-> "rate_limited", image_base64 |-> FALSE,
                   image_url |-> FALSE, message |-> TRUE])
  => /\ last.out = "RateLimited"
     /\ resultImage = NoImage
     /\ aiMessage = [kind |-> "data", of |-> last.k]
     /\ ~isGenerating

\* C22: the outcome follows the status of the response: a body with a missing
\* or unknown status is a Failure whatever else it carries, and a non-failure
\* outcome is reached only with the status of that outcome.
C22_ClassifiedByStatus ==
  (last.op = "response" /\ last.body.status # "") =>
     /\ last.body.status = "other" =>
           (last.out = "Failure" /\ aiMessage = FailedMessage(last.k)
              /\ resultImage = NoImage)
     /\ last.out = "Success" => last.body.status = "success"
     /\ last.out = "Demo" => last.body.status = "demo"
     /\ last.out = "RateLimited" => last.body.status = "rate_limited"
     /\ last.out = "TextOnly" => last.body.status = "text_response"

\* C23: after an attempt completed aiMessage is not null, and when it failed
\* (an error, or a body that no branch recognises) aiMessage is the fixed
\* failure text.
C23_MessageAfterEveryOutcome ==
  Completed(last) =>
     /\ aiMessage # NoMessage
     /\ last.out \in {"Failure", "None"} => aiMessage = FailedMessage(last.k)

(* ------------------------------------------------------------------ *)
(* Failure containment, dispatch and the request                        *)
(* ------------------------------------------------------------------ *)

\* C24: an overlay image that fails to load never aborts composition. On the
\* canvas the failed entry is skipped and the loop goes on with the next entry,
\* every other entry is drawn in Map order, and after the last entry the
\* composite is reported whether that entry loaded or not. In the layer stack
\* the failed layer renders nothing and the other layers stay as they were.
C24_OverlayFailureIsContained ==
  [][ /\ last'.op \in {"skipOverlay", "drawOverlay"} =>
           LET r == last'.k
               this == renders[r].parts[renders[r].i]
           IN  /\ canvas' = IF last'.op = "drawOverlay" THEN Append(canvas, this) ELSE canvas
               /\ IF renders[r].i < Len(renders[r].parts)
                  THEN renders'[r].pc = "overlays" /\ renders'[r].i = renders[r].i + 1
                  ELSE /\ renders'[r].pc = "done"
                       /\ last'.out = "composite" /\ composite' = canvas'
      /\ last'.op = "onError" =>
           LET others(p) == p # last'.part
           IN  /\ last'.part \in hasError'
               /\ VisibleLayers' = SelectSeq(VisibleLayers, others)
               /\ selections' = selections
    ]_vars

\* one renderCanvas call over two overlays: the first failed to load, the
\* second was drawn over the photo and the composite was reported
C24_Witness ==
  /\ last.op = "drawOverlay" /\ last.out = "composite"
  /\ Len(renders[last.k].parts) = 2
  /\ \A r \in 1..Len(renders) : r # last.k => renders[r].pc = "loadCar"
  /\ composite = << "car", renders[last.k].parts[2] >>

\* two layers are mounted, the image of one failed, the other is still shown
C24_WitnessLayer ==
  /\ last.op = "onError"
  /\ last.part \in hasError
  /\ Len(VisibleLayers) = 1 /\ VisibleLayers[1] # last.part

\* C25: handleGenerate never retries. An attempt exists only because
\* handleGenerate was invoked and passed its guard; it dispatches its request
\* at most once (it never goes back to preparing one), and once it has ended,
\* with whatever outcome, it stays ended.
C25_NoRetry ==
  [][ /\ Len(attempts') \in {Len(attempts), Len(attempts) + 1}
      /\ Len(attempts') = Len(attempts) + 1 =>
           (last'.op = "handleGenerate" /\ last'.out = "started")
      /\ \A k \in 1..Len(attempts) :
           /\ attempts[k].pc = "awaitResp" => attempts'[k].pc \in {"awaitResp", "done"}
           /\ attempts[k].pc = "done" => attempts'[k].pc = "done"
    ]_vars

\* the request of the only attempt failed: the attempt is over, nothing is in
\* flight and the store shows the failure message
C25_Witness ==
  /\ last.op = "response" /\ last.out = "Failure"
  /\ Len(attempts) = 1 /\ attempts[1].pc = "done"
  /\ ~isGenerating /\ aiMessage = FailedMessage(1)

\* C26: right after setCarImage with a file (a new photo), every category of
\* the selection is empty and resultImage and aiMessage are null.
C26_NewPhotoDiscardsSession ==
  (last.op = "setCarImage" /\ carImage # 0) =>
     /\ \A c \in CategoryIds : selections[c].ids = << >>
     /\ resultImage = NoImage /\ aiMessage = NoMessage

\* C27: the part sent as the primary overlay of a request (part_image, with its
\* category as part_category) is the first entry of getSelectedLayers() for the
\* selection the attempt was started with, the selected part of lowest zIndex.
C27_PrimaryIsLowestLayer ==
  \A k \in 1..Len(attempts) :
     attempts[k].pc = "awaitResp" =>
        LET layers == getSelectedLayersOf(rev, attempts[k].sel)
        IN  /\ RequestOf(k).part_image = layers[1]
            /\ RequestOf(k).part_category = Part(layers[1]).categoryId

\* what buildAiPromptFromParts must return for parts, and leave of parts
PromptJoined(parts) ==
  LET r == buildAiPromptFromParts(parts)
      n == Len(parts)
  IN  /\ r.parts = parts
      /\ n = 0 => r.text = << >>
      /\ n = 1 => r.text = << AiPrompt(parts[1]) >>
      /\ n >= 2 =>
           /\ Len(r.text) = 2 * n - 1
           /\ \A i \in 1..n : r.text[2 * i - 1] = AiPrompt(parts[i])
           /\ \A i \in 1..(n - 2) : r.text[2 * i] = Separator(", ")
           /\ r.text[2 * n - 2] = Separator(", and ")

\* C28: buildAiPromptFromParts returns '' for no parts, the one aiPrompt for one
\* part, and for two or more every aiPrompt once in input order with ', '
\* between them and ', and ' before the last; the input array is left as it was.
C28_PromptIsOxfordJoin ==
  ~GettersThrow(rev, selections) => PromptJoined(getSelectedPartsOf(rev, selections))

\* three parts are selected: the text has a ', ' and a ', and '
C28_Witness ==
  /\ rev = 1
  /\ Len(getSelectedPartsOf(rev, selections)) = 3
  /\ Len(buildAiPromptFromParts(getSelectedPartsOf(rev, selections)).text) = 5

\* C29: all_parts of a request lists every part selected when generate was
\* triggered exactly once, in getSelectedParts() order (wrap, roof, body in
\* insertion order), each with its own id, name, category and description, and
\* part_category is the category of the part sent as part_image.
C29_AllPartsInSelectionOrder ==
  \A k \in 1..Len(attempts) :
     attempts[k].pc = "awaitResp" =>
        LET sel == attempts[k].sel
            req == RequestOf(k)
            ids == [i \in 1..Len(req.all_parts) |-> req.all_parts[i].id]
        IN  /\ ids = sel.wrap.ids \o sel.roof.ids \o sel.body.ids
            /\ \A i \in 1..Len(ids) : \A j \in 1..Len(ids) : i # j => ids[i] # ids[j]
            /\ \A i \in 1..Len(ids) :
                  req.all_parts[i] = [id |-> ids[i], name |-> ids[i],
                                      category |-> Part(ids[i]).categoryId,
                                      description |-> ids[i]]
            /\ req.part_category = Part(req.part_image).categoryId

\* a request is out for a roof rack and a front lip: roof first in all_parts,
\* although the front lip is the lower layer
C29_Witness ==
  \E k \in 1..Len(attempts) :
     /\ attempts[k].pc = "awaitResp"
     /\ Len(RequestOf(k).all_parts) = 2
     /\ RequestOf(k).all_parts[1].category = "roof"
     /\ getSelectedLayersOf(rev, attempts[k].sel)[1] # RequestOf(k).all_parts[1].id

\* C30: two selected parts of equal zIndex come out of getSelectedLayers() in
\* catalog declaration order, in whatever order they were selected.
C30_TiesInCatalogOrder ==
  ~GettersThrow(rev, selections) =>
     LET layers == getSelectedLayersOf(rev, selections)
     IN  \A i \in 1..Len(layers) : \A j \in 1..Len(layers) :
            (i < j /\ layers[i] # layers[j]
               /\ Part(layers[i]).zIndex = Part(layers[j]).zIndex)
              => PartIndex(layers[i]) < PartIndex(layers[j])

(* ------------------------------------------------------------------ *)
(* Suspension, outcomes and the busy flag                               *)
(* ------------------------------------------------------------------ *)

\* C31: handleGenerate suspends only on the request to /api/generate, so no
\* store action and no other handleGenerate runs while an attempt is between
\* its guard and the dispatch of its request.
C31_OnlyTheRequestSuspends ==
  /\ last.op \in {"selectPart", "deselectPart", "clearCategory", "clearAll", "setCarImage"}
        => \A k \in 1..Len(attempts) : attempts[k].pc # "preparing"
  /\ (last.op = "handleGenerate" /\ last.out = "started")
        => \A k \in 1..Len(attempts) : k # last.k => attempts[k].pc # "preparing"

\* C32: a response body with a message and no image, whatever its status,
\* leaves aiMessage equal to that message and resultImage equal to the fixed
\* placeholder image URL.
C32_TextOnlyShowsPlaceholder ==
  (/\ last.op = "response"
   /\ last.body.message /\ ~last.body.image_base64 /\ ~last.body.image_url)
  => /\ last.out = "TextOnly"
     /\ aiMessage = [kind |-> "data", of |-> last.k]
     /\ resultImage.kind = "placeholder"

\* a text_response body with only a message arrived while nothing was shown
C32_Witness ==
  /\ last.op = "response" /\ ~last.hadResult
  /\ last.body = [status |-> "text_response", image_base64 |-> FALSE,
                  image_url |-> FALSE, message |-> TRUE]
  /\ resultImage = PlaceholderImage(last.k)

\* C33: in every reachable state the body selection holds no id twice, after
\* any sequence of selectPart, deselectPart and clearCategory calls.
C33_BodyHasNoDuplicates ==
  \A i \in 1..Len(selections.body.ids) : \A j \in 1..Len(selections.body.ids) :
     i # j => selections.body.ids[i] # selections.body.ids[j]

\* a body part was toggled off and on again while another one stayed selected
C33_Witness ==
  /\ last.op = "selectPart" /\ last.cat = "body" /\ last.chain = "same"
  /\ Len(selections.body.ids) = 2
  /\ selections.body.ids[2] = last.part

\* C34: the body selection keeps insertion order. selectPart on body puts an
\* absent id at the end and takes a present id out with the others left in
\* their order; so toggling a selected id a twice gives the same members with
\* a last, and the stored sequence is the one from before the two calls exactly
\* when a was last in it or was not in it.
C34_BodyKeepsInsertionOrder ==
  (last.op = "selectPart" /\ last.cat = "body") =>
     LET a == last.part
         others(x) == x # a
         now == selections.body.ids
         before == last.before.ids
         prior == last.before2.ids
     IN  /\ now = IF a \in SeqToSet(before) THEN SelectSeq(before, others)
                  ELSE Append(before, a)
         /\ last.chain = "same" =>
              /\ SeqToSet(now) = SeqToSet(prior)
              /\ a \in SeqToSet(prior) => now = Append(SelectSeq(prior, others), a)
              /\ now = prior <=> (a \notin SeqToSet(prior) \/ prior[Len(prior)] = a)

\* a was first of two selected body parts and was toggled twice: it is now last
C34_Witness ==
  /\ last.op = "selectPart" /\ last.cat = "body" /\ last.chain = "same"
  /\ Len(last.before2.ids) = 2 /\ last.before2.ids[1] = last.part
  /\ selections.body.ids = << last.before2.ids[2], last.part >>

\* C35: in every reachable state each slot has the shape its readers assume
\* (wrap an id or null, body an array, roof what the revision's state type
\* declares: an id or null in the first, an array in the second), so that no
\* getter throws or takes a single id for a collection.
C35_SlotsHaveDeclaredShape ==
  /\ selections.wrap.shape \in {"null", "id"}
  /\ selections.body.shape = "array"
  /\ IF rev = 1 THEN selections.roof.shape \in {"null", "id"}
     ELSE selections.roof.shape = "array"
  /\ ~GettersThrow(rev, selections)

\* C36: isGenerating is TRUE in every state in which some attempt has passed
\* the guard and has not yet reached its finally block, two overlapping
\* attempts and a clearAll during the wait included.
C36_BusyWhileAnyAttemptRuns ==
  (\E k \in 1..Len(attempts) : attempts[k].pc # "done") => isGenerating

\* LayeredVisualizer: {aiMessage && <p>{aiMessage}</p>} sits inside the result
\* view, which is returned only under if (resultImage)
MessageRendered == resultImage # NoImage /\ aiMessage # NoMessage

\* C38: a message set by an ended attempt is visible: there is no reachable
\* state in which aiMessage is set, no attempt is in flight, and the visualizer
\* renders no message.
C38_SetMessageIsRendered ==
  (/\ aiMessage # NoMessage
   /\ \A k \in 1..Len(attempts) : attempts[k].pc = "done")
  => MessageRendered

\* C39: when calls of renderCanvas overlap, isLoading is FALSE only once the
\* last of them has finished, and once all have finished the canvas and the
\* composite last reported hold the photo and overlays of the most recent
\* selection only (an overlay whose image failed to load may be missing).
C39_OverlappingRendersSettleOnLatest ==
  LET allDone == \A r \in 1..Len(renders) : renders[r].pc = "done"
      recent == SeqToSet(selectedPartsMap)
      onlyRecent(c) == c # << >> => /\ c[1] = "car"
                                    /\ \A i \in 2..Len(c) : c[i] \in recent
  IN  /\ ~isLoading => allDone
      /\ (renders # << >> /\ allDone) => onlyRecent(canvas) /\ onlyRecent(composite)

\* C37: provided each awaited operation eventually settles, every attempt that
\* passed the guard eventually ends, whatever the response body and whatever
\* the error, and the step that ends it leaves isGenerating FALSE.
C37_EveryAttemptEnds ==
  \A k \in 1..MaxAttempts :
     (k <= Len(attempts) /\ attempts[k].pc # "done")
       ~> (/\ k <= Len(attempts) /\ attempts[k].pc = "done"
           /\ last.k = k /\ last.op \in {"prepare", "response"}
           /\ ~isGenerating)

\* the second of two overlapping attempts has just ended, the first ended before
C37_Witness ==
  /\ Len(attempts) = 2
  /\ \A k \in 1..2 : attempts[k].pc = "done"
  /\ last.op \in {"prepare", "response"} /\ last.k = 2
  /\ ~isGenerating

====
